---- MODULE Spec2Model ----
(***************************************************************************)
(* Model of src/reddit.py: the Tools class of the Reddit Search Toolkit.   *)
(* One invocation of search, of get_top_comments, or a direct call of the  *)
(* _emit_status helper, with the injected sink, the upstream answer and    *)
(* the asyncio tasks the helper creates.                                   *)
(***************************************************************************)
EXTENDS Integers, Sequences, FiniteSets, TLC

VARIABLES
    op,           \* "search" | "get_top_comments" | "emit" : the entry point called
    sink,         \* kind of __event_emitter__ the host injected
    loop,         \* TRUE iff an asyncio event loop is running around the call
    arg,          \* the limit / num_comments string, a sequence of characters
    max_results,  \* self.valves.max_results
    pc,           \* position of the call
    actual,       \* actual_limit / actual_num_comments (0 before it is resolved)
    sent,         \* params["limit"] of the GET (0 before the GET)
    gets,         \* number of requests.get calls issued
    response,     \* the answer of requests.get: [status, body]
    result,       \* the list returned to the caller
    calls,        \* the payloads the sink was called with, in order
    tasks,        \* asyncio tasks made from the sink's coroutines, in creation order
    err,          \* the exception that left the entry point ("none" if none)
    hist          \* observable events of the call, in order

vars == <<op, sink, loop, arg, max_results, pc, actual, sent, gets, response,
          result, calls, tasks, err, hist>>

----------------------------------------------------------------------------
(* Bounds of the model *)
MaxStrLen == 3
MaxChildren == 3

(* Program constants *)
LimitLo == 1
LimitHi == 150
DefaultMaxResults == 80
DefaultNumComments == 10
BaseUrl == "https://www.reddit.com"

----------------------------------------------------------------------------
(* Strings are sequences of characters so that int() is computed, not assumed *)
Digits == {"0", "1", "2", "3", "4", "5", "6", "7", "8", "9"}
Chars == {"0", "1", "5", "-", "+", " ", "_", "a"}

SeqsUpTo(S, n) == UNION {[1..k -> S] : k \in 0..n}

DigitVal(c) ==
    CASE c = "0" -> 0 [] c = "1" -> 1 [] c = "2" -> 2 [] c = "3" -> 3
      [] c = "4" -> 4 [] c = "5" -> 5 [] c = "6" -> 6 [] c = "7" -> 7
      [] c = "8" -> 8 [] c = "9" -> 9

RECURSIVE LStrip(_)
LStrip(s) == IF s # <<>> /\ Head(s) = " " THEN LStrip(Tail(s)) ELSE s

RECURSIVE RStrip(_)
RStrip(s) ==
    IF s # <<>> /\ s[Len(s)] = " " THEN RStrip(SubSeq(s, 1, Len(s) - 1)) ELSE s

(* the digit part of an integer literal: digits, single underscores between them *)
DigitsOK(b) ==
    /\ Len(b) > 0
    /\ b[1] \in Digits
    /\ b[Len(b)] \in Digits
    /\ \A i \in 1..Len(b) : b[i] \in Digits \cup {"_"}
    /\ \A i \in 1..(Len(b) - 1) : ~(b[i] = "_" /\ b[i + 1] = "_")

RECURSIVE DecVal(_)
DecVal(b) ==
    IF b = <<>> THEN 0
    ELSE LET l == b[Len(b)]
             r == SubSeq(b, 1, Len(b) - 1)
         IN  IF l = "_" THEN DecVal(r) ELSE DecVal(r) * 10 + DigitVal(l)

(* Python's int(str): ok = FALSE stands for ValueError *)
PyInt(s) ==
    LET t == RStrip(LStrip(s))
        signed == t # <<>> /\ t[1] \in {"+", "-"}
        b == IF signed THEN Tail(t) ELSE t
    IN  IF DigitsOK(b)
        THEN [ok |-> TRUE,
              val |-> IF signed /\ t[1] = "-" THEN 0 - DecVal(b) ELSE DecVal(b)]
        ELSE [ok |-> FALSE, val |-> 0]

Sentinel == <<"-", "1">>

(* a plausible slip: an out-of-range limit clamped to the nearest bound *)
ResolveLimitClamped(limit, dflt) ==
    IF limit # <<>> /\ limit # Sentinel
    THEN LET p == PyInt(limit)
         IN  IF ~p.ok THEN dflt
             ELSE IF p.val < LimitLo THEN LimitLo
             ELSE IF p.val > LimitHi THEN LimitHi
             ELSE p.val
    ELSE dflt

(* search, lines 145-156: actual_limit *)
ResolveLimit(limit, dflt) ==
    IF limit # <<>> /\ limit # Sentinel
    THEN LET p == PyInt(limit)
         IN  IF p.ok
             THEN IF LimitLo <= p.val /\ p.val <= LimitHi THEN p.val ELSE dflt
             ELSE dflt
    ELSE dflt

(* a plausible slip: the search handler's upper bound copied over *)
ResolveCountCapped(num_comments) ==
    IF num_comments # <<>>
    THEN LET p == PyInt(num_comments)
         IN  IF p.ok /\ p.val > 0 /\ p.val <= LimitHi
             THEN p.val ELSE DefaultNumComments
    ELSE DefaultNumComments

(* get_top_comments, lines 225-236: actual_num_comments *)
ResolveCount(num_comments) ==
    IF num_comments # <<>>
    THEN LET p == PyInt(num_comments)
         IN  IF p.ok
             THEN IF p.val > 0 THEN p.val ELSE DefaultNumComments
             ELSE DefaultNumComments
    ELSE DefaultNumComments

----------------------------------------------------------------------------
(* JSON values of the upstream answers: a string <<"str", s>> or null *)
Null == <<"null">>
Str(s) == <<"str", s>>

(* how an f-string renders a value: str(None) is "None" *)
PyFormat(v) == IF v = Null THEN "None" ELSE v[2]

(* search, lines 178-188: the post record of one child; subreddit, score,
   num_comments and created_utc are passed through exactly as title is *)
PostOf(child) ==
    [title |-> child.title, url |-> BaseUrl \o PyFormat(child.permalink)]

(* get_top_comments, lines 259-265: author and score are passed through as body is *)
CommentOf(child) == [body |-> child.body]

RECURSIVE SearchLoopNoBreak(_, _, _)
(* a plausible slip: the defensive break left out *)
SearchLoopNoBreak(children, posts, actual_limit) ==
    IF children = <<>> THEN posts
    ELSE SearchLoopNoBreak(Tail(children), Append(posts, PostOf(Head(children))),
                           actual_limit)

RECURSIVE SearchLoop(_, _, _)
(* search, lines 177-190: the for loop with its break *)
SearchLoop(children, posts, actual_limit) ==
    IF children = <<>> THEN posts
    ELSE LET p == Append(posts, PostOf(Head(children)))
         IN  IF Len(p) >= actual_limit THEN p
             ELSE SearchLoop(Tail(children), p, actual_limit)

RECURSIVE CommentLoopUnfiltered(_, _, _)
(* a plausible slip: the kind test left out *)
CommentLoopUnfiltered(children, comments, actual_num_comments) ==
    IF children = <<>> THEN comments
    ELSE LET c == Append(comments, CommentOf(Head(children)))
         IN  IF Len(c) >= actual_num_comments THEN c
             ELSE CommentLoopUnfiltered(Tail(children), c, actual_num_comments)

RECURSIVE CommentLoop(_, _, _)
(* get_top_comments, lines 257-268: the for loop, its kind test and its break *)
CommentLoop(children, comments, actual_num_comments) ==
    IF children = <<>> THEN comments
    ELSE IF Head(children).kind = "t1"
         THEN LET c == Append(comments, CommentOf(Head(children)))
              IN  IF Len(c) >= actual_num_comments THEN c
                  ELSE CommentLoop(Tail(children), c, actual_num_comments)
         ELSE CommentLoop(Tail(children), comments, actual_num_comments)

(* a plausible slip: only server errors raised *)
RaiseForStatusServerOnly(status) == 500 <= status /\ status < 600

(* response.raise_for_status(), lines 173 and 246: requests raises HTTPError
   for the client and server error codes and for nothing else *)
RaiseForStatus(status) == 400 <= status /\ status < 600

----------------------------------------------------------------------------
(* Status payloads, lines 93-96 *)
(* a plausible slip: the start status flagged done *)
StartPayloadDone(o) ==
    [description |-> IF o = "search" THEN "Searching Reddit" ELSE "Fetching comments",
     n |-> 0, done |-> TRUE, hidden |-> FALSE]

(* lines 143 and 223 *)
StartPayload(o) ==
    [description |-> IF o = "search" THEN "Searching Reddit" ELSE "Fetching comments",
     n |-> 0, done |-> FALSE, hidden |-> FALSE]

(* lines 195 and 270 *)
DonePayload(o, res) ==
    [description |-> IF o = "search" THEN "Retrieved posts" ELSE "Returned comments",
     n |-> Len(res), done |-> TRUE, hidden |-> FALSE]

(* line 252 *)
DecodeErrorPayload ==
    [description |-> "Could not fetch comments (invalid format)",
     n |-> 0, done |-> TRUE, hidden |-> TRUE]

(* line 95 with the keyword defaults of lines 88-89, for a direct call *)
DirectPayload(d, h) ==
    [description |-> "direct", n |-> 0, done |-> d, hidden |-> h]

(* The kinds of __event_emitter__:
     none       no callback (None)
     sync       a plain callable that returns a non-awaitable
     faulty     a plain callable that may raise when called
     coro       an async def: calling it returns a coroutine
     awaitable  a callable returning an awaitable that is no coroutine
                (a Future, a Task, an object with __await__)              *)
SinkKinds == {"none", "sync", "faulty", "coro", "awaitable"}

(* _emit_status, lines 92-108, for one call. fault: the sink (its call, or its
   coroutine when run synchronously) raises.
   task: "none" | "pending" (asyncio.create_task) | "ran" | "failed" (asyncio.run)
   raised: the exception leaving _emit_status, "none" when it returns *)
EmitOutcome(sk, loopRunning, fault) ==
    CASE sk = "none" -> [called |-> FALSE, task |-> "none", raised |-> "none"]
      [] sk = "sync" -> [called |-> TRUE, task |-> "none", raised |-> "none"]
      [] sk = "faulty" ->
            [called |-> TRUE, task |-> "none",
             raised |-> IF fault THEN "SinkError" ELSE "none"]
      [] sk = "coro" ->
            IF loopRunning
            THEN [called |-> TRUE, task |-> "pending", raised |-> "none"]
            ELSE IF fault
                 THEN [called |-> TRUE, task |-> "failed", raised |-> "SinkError"]
                 ELSE [called |-> TRUE, task |-> "ran", raised |-> "none"]
      [] sk = "awaitable" ->
            IF loopRunning
            THEN [called |-> TRUE, task |-> "none", raised |-> "TypeError"]
            ELSE [called |-> TRUE, task |-> "none", raised |-> "ValueError"]

(* the effect of self._emit_status(__event_emitter__, ...) at one call site *)
emit_status(payload, fault, nextpc, events) ==
    LET r == EmitOutcome(sink, loop, fault)
    IN  /\ calls' = IF r.called THEN Append(calls, payload) ELSE calls
        /\ tasks' = IF r.task = "none" THEN tasks ELSE Append(tasks, r.task)
        /\ IF r.raised = "none"
           THEN /\ pc' = nextpc
                /\ err' = err
                /\ hist' = hist \o events
           ELSE /\ pc' = "raised"
                /\ err' = r.raised
                /\ hist' = Append(hist, "raise")

----------------------------------------------------------------------------
(* The inputs of the model *)
Handlers == {"search", "get_top_comments"}

(* limit / num_comments strings of the invocations: empty, the sentinel "-1",
   "1", "2", a non-numeric string and an out-of-range number *)
HandlerArgs == {<<>>, Sentinel, <<"1">>, <<"2">>, <<"a">>, <<"0">>}

(* every string over Chars up to the bound, for the resolution policies *)
AllArgs == SeqsUpTo(Chars, MaxStrLen)

(* Valves.max_results, lines 52-57: an integer in [1,150], 80 unless configured *)
MaxResultsChoices == {2, DefaultMaxResults}

(* HTTP status codes requests.get can hand back *)
Statuses == {200, 304, 404, 503}

PostChildren == [permalink : {Str("/r/a"), Str("/r/b"), Null}, title : {Str("T")}]
CommentChildren == [kind : {"t1", "more"}, body : {Str("x"), Str("y")}]

NoBody == [kind |-> "invalid", len |-> 0, children |-> <<>>]

(* bodies of the search endpoint: not JSON; a JSON array (not the expected
   object); a JSON object whose data.children is the given list *)
SearchBodies ==
    {NoBody, [kind |-> "array", len |-> 0, children |-> <<>>]}
    \cup {[kind |-> "object", len |-> 1, children |-> c] :
            c \in SeqsUpTo(PostChildren, MaxChildren)}

(* bodies of the comment endpoint: not JSON; a JSON array of len elements (the
   children are those of its second element); a JSON object with len keys *)
CommentBodies ==
    {NoBody}
    \cup {[kind |-> "array", len |-> n, children |-> <<>>] : n \in {0, 1}}
    \cup {[kind |-> "array", len |-> 2, children |-> c] :
            c \in SeqsUpTo(CommentChildren, MaxChildren)}
    \cup {[kind |-> "object", len |-> n, children |-> <<>>] : n \in {1, 2}}

NoResponse == [status |-> 0, body |-> NoBody]

Terminal == {"returned", "raised"}

----------------------------------------------------------------------------
(* the state right after the entry point is called *)
Entered(o, sk, lp, a, mr) ==
    /\ op = o
    /\ sink = sk
    /\ loop = lp
    /\ arg = a
    /\ max_results = mr
    /\ pc = "entered"
    /\ actual = 0
    /\ sent = 0
    /\ gets = 0
    /\ response = NoResponse
    /\ result = <<>>
    /\ calls = <<>>
    /\ tasks = <<>>
    /\ err = "none"
    /\ hist = <<>>

(* a handler is a coroutine: it only ever runs inside a running event loop;
   _emit_status is a plain method and can be called with or without one *)
Init ==
    \/ \E o \in Handlers, sk \in SinkKinds, a \in HandlerArgs,
          mr \in MaxResultsChoices : Entered(o, sk, TRUE, a, mr)
    \/ \E sk \in SinkKinds, lp \in BOOLEAN :
          Entered("emit", sk, lp, <<>>, DefaultMaxResults)

(* lines 143 and 223: the start status *)
EmitStart ==
    /\ pc = "entered"
    /\ op \in Handlers
    /\ \E fault \in BOOLEAN :
          emit_status(StartPayload(op), fault, "started", <<"emit_start">>)
    /\ UNCHANGED <<op, sink, loop, arg, max_results, actual, sent, gets,
                   response, result>>

(* lines 145-158 and 225-238: the effective limit / count *)
Resolve ==
    /\ pc = "started"
    /\ actual' = IF op = "search" THEN ResolveLimit(arg, max_results)
                 ELSE ResolveCount(arg)
    /\ pc' = "resolved"
    /\ UNCHANGED <<op, sink, loop, arg, max_results, sent, gets, response,
                   result, calls, tasks, err, hist>>

(* lines 160-172 and 240-245: the GET is handed to a worker thread and the
   handler suspends *)
Request ==
    /\ pc = "resolved"
    /\ sent' = actual
    /\ gets' = gets + 1
    /\ pc' = "network_pending"
    /\ hist' = Append(hist, "get")
    /\ UNCHANGED <<op, sink, loop, arg, max_results, actual, response, result,
                   calls, tasks, err>>

(* requests.get returns a response *)
Respond ==
    /\ pc = "network_pending"
    /\ \E st \in Statuses,
          b \in (IF op = "search" THEN SearchBodies ELSE CommentBodies) :
          response' = [status |-> st, body |-> b]
    /\ pc' = "responded"
    /\ hist' = Append(hist, "response")
    /\ UNCHANGED <<op, sink, loop, arg, max_results, actual, sent, gets,
                   result, calls, tasks, err>>

(* requests.get raises (timeout after 10 s, connection error): the await
   re-raises it in the handler *)
TransportFail ==
    /\ pc = "network_pending"
    /\ pc' = "raised"
    /\ err' = "TransportError"
    /\ hist' = Append(hist, "raise")
    /\ UNCHANGED <<op, sink, loop, arg, max_results, actual, sent, gets,
                   response, result, calls, tasks>>

Raise(e) ==
    /\ pc' = "raised"
    /\ err' = e
    /\ hist' = Append(hist, "raise")
    /\ result' = result

(* search, lines 173-190: raise_for_status, json(), the loop *)
ParseSearch ==
    /\ pc = "responded"
    /\ op = "search"
    /\ IF RaiseForStatus(response.status) THEN Raise("HTTPError")
       ELSE IF response.body.kind = "invalid" THEN Raise("JSONDecodeError")
       ELSE IF response.body.kind = "array" THEN Raise("AttributeError")
       ELSE /\ result' = SearchLoop(response.body.children, <<>>, actual)
            /\ pc' = "parsed"
            /\ err' = err
            /\ hist' = Append(hist, "parsed")
    /\ UNCHANGED <<op, sink, loop, arg, max_results, actual, sent, gets,
                   response, calls, tasks>>

(* get_top_comments, lines 246-268: raise_for_status, json() with its except
   clause, the length test, the loop *)
ParseComments ==
    /\ pc = "responded"
    /\ op = "get_top_comments"
    /\ IF RaiseForStatus(response.status) THEN Raise("HTTPError")
       ELSE IF response.body.kind = "invalid"
       THEN /\ pc' = "decode_error"
            /\ err' = err
            /\ hist' = Append(hist, "decode_error")
            /\ result' = result
       ELSE IF response.body.kind = "object" /\ response.body.len > 1
       THEN Raise("KeyError")
       ELSE /\ result' = IF response.body.len > 1
                         THEN CommentLoop(response.body.children, <<>>, actual)
                         ELSE <<>>
            /\ pc' = "parsed"
            /\ err' = err
            /\ hist' = Append(hist, "parsed")
    /\ UNCHANGED <<op, sink, loop, arg, max_results, actual, sent, gets,
                   response, calls, tasks>>

(* lines 195-197 and 270-272: the completion status, then the return *)
EmitDone ==
    /\ pc = "parsed"
    /\ \E fault \in BOOLEAN :
          emit_status(DonePayload(op, result), fault, "returned",
                      <<"emit_done", "return">>)
    /\ UNCHANGED <<op, sink, loop, arg, max_results, actual, sent, gets,
                   response, result>>

(* lines 252-253: the hidden completion status, then return [] *)
EmitDecodeError ==
    /\ pc = "decode_error"
    /\ \E fault \in BOOLEAN :
          emit_status(DecodeErrorPayload, fault, "returned",
                      <<"emit_hidden_done", "return">>)
    /\ result' = <<>>
    /\ UNCHANGED <<op, sink, loop, arg, max_results, actual, sent, gets,
                   response>>

(* a direct call of _emit_status, lines 83-108, outside the two handlers *)
DirectEmit ==
    /\ pc = "entered"
    /\ op = "emit"
    /\ \E d \in BOOLEAN, h \in BOOLEAN, fault \in BOOLEAN :
          emit_status(DirectPayload(d, h), fault, "returned", <<"return">>)
    /\ UNCHANGED <<op, sink, loop, arg, max_results, actual, sent, gets,
                   response, result>>

(* the event loop runs a status task: only while the handler is suspended in
   its await or after it has finished; the sink's coroutine may raise, and the
   exception stays in the task *)
TaskRun ==
    /\ loop
    /\ pc \in {"network_pending"} \cup Terminal
    /\ \E i \in 1..Len(tasks), outcome \in {"ran", "failed"} :
          /\ tasks[i] = "pending"
          /\ tasks' = [tasks EXCEPT ![i] = outcome]
    /\ UNCHANGED <<op, sink, loop, arg, max_results, pc, actual, sent, gets,
                   response, result, calls, err, hist>>

Next ==
    \/ EmitStart
    \/ Resolve
    \/ Request
    \/ Respond
    \/ TransportFail
    \/ ParseSearch
    \/ ParseComments
    \/ EmitDone
    \/ EmitDecodeError
    \/ DirectEmit
    \/ TaskRun

Spec == Init /\ [][Next]_vars

(* the resolution policies over every string up to the bound *)
ParseInit ==
    \E o \in Handlers, sk \in {"none", "sync"}, a \in AllArgs,
       mr \in MaxResultsChoices : Entered(o, sk, TRUE, a, mr)

ParseNext ==
    \/ EmitStart
    \/ Resolve
    \/ Request

ParseSpec == ParseInit /\ [][ParseNext]_vars

----------------------------------------------------------------------------
(* Vocabulary of the properties *)
Min(a, b) == IF a <= b THEN a ELSE b

Is2xx(st) == 200 <= st /\ st < 300

(* the string parses to an integer within [lo, hi] *)
ParsesWithin(s, lo, hi) == PyInt(s).ok /\ lo <= PyInt(s).val /\ PyInt(s).val <= hi

ParsesPositive(s) == PyInt(s).ok /\ PyInt(s).val > 0

T1Only(children) == SelectSeq(children, LAMBDA c : c.kind = "t1")

DoneCount == Cardinality({i \in 1..Len(calls) : calls[i].done})

EmitterErrors == {"SinkError", "TypeError", "ValueError"}

IsPrefix(s, t) == Len(s) <= Len(t) /\ SubSeq(t, 1, Len(s)) = s

----------------------------------------------------------------------------
(* C1: in search, a limit string that parses to an integer in [1,150] makes
   that integer the effective limit, and every other limit string (empty, the
   sentinel "-1", non-numeric, out of range) makes max_results the effective
   limit, never 1 or 150 by clamping; the limit parameter of the GET is the
   effective limit. *)
C1_EffectiveLimit ==
    (op = "search" /\ pc \in {"resolved", "network_pending"}) =>
        /\ ParsesWithin(arg, 1, 150) => actual = PyInt(arg).val
        /\ ~ParsesWithin(arg, 1, 150) => actual = max_results
        /\ pc = "network_pending" => sent = actual

(* "151" is out of range and the GET carries the configured default 80 *)
C1_Witness ==
    /\ op = "search"
    /\ pc = "network_pending"
    /\ arg = <<"1", "5", "1">>
    /\ max_results = 80
    /\ sent = 80

(* C2: in get_top_comments, a num_comments string that parses to a positive
   integer makes that integer the effective count, however large, and every
   other string (empty, non-numeric, zero, negative) makes it 10. *)
C2_EffectiveCount ==
    (op = "get_top_comments" /\ pc \in {"resolved", "network_pending"}) =>
        /\ ParsesPositive(arg) => actual = PyInt(arg).val
        /\ ~ParsesPositive(arg) => actual = 10
        /\ pc = "network_pending" => sent = actual

(* "151" is above the search handler's ceiling and is kept as it is *)
C2_Witness ==
    /\ op = "get_top_comments"
    /\ pc = "network_pending"
    /\ arg = <<"1", "5", "1">>
    /\ sent = 151

(* C3: when search returns on a 2xx answer whose children list has n entries,
   the returned list holds exactly min(n, L) post records, L the effective
   limit: the i-th record is made from the i-th child, and its url is the site
   base URL followed by that child's permalink. *)
C3_SearchResult ==
    (op = "search" /\ pc = "returned" /\ Is2xx(response.status)) =>
        LET ch == response.body.children
            m == Min(Len(ch), actual)
        IN  /\ Len(result) = m
            /\ Len(result) <= actual
            /\ \A i \in 1..m :
                  /\ result[i].title = ch[i].title
                  /\ ch[i].permalink # Null =>
                        result[i].url = "https://www.reddit.com" \o ch[i].permalink[2]

(* upstream sent three children for a limit of two *)
C3_Witness ==
    /\ op = "search"
    /\ pc = "returned"
    /\ Is2xx(response.status)
    /\ actual = 2
    /\ Len(response.body.children) = 3
    /\ Len(result) = 2
    /\ result[2].url = "https://www.reddit.com/r/b"

(* C4: when get_top_comments returns on a 2xx answer that is a JSON array, the
   result is, in upstream order, the first min(k, C) of the second element's
   children of kind "t1" (k of them, C the effective count); an array of fewer
   than two elements gives the empty list. *)
C4_CommentResult ==
    (/\ op = "get_top_comments"
     /\ pc = "returned"
     /\ Is2xx(response.status)
     /\ response.body.kind = "array") =>
        IF response.body.len < 2 THEN result = <<>>
        ELSE LET t1 == T1Only(response.body.children)
                 m == Min(Len(t1), actual)
             IN  /\ Len(result) = m
                 /\ \A i \in 1..m : result[i] = [body |-> t1[i].body]

(* a "more" stub ahead of two comments, for a count of one *)
C4_Witness ==
    /\ op = "get_top_comments"
    /\ pc = "returned"
    /\ Is2xx(response.status)
    /\ response.body.kind = "array"
    /\ Len(response.body.children) = 3
    /\ response.body.children[1].kind = "more"
    /\ Len(T1Only(response.body.children)) = 2
    /\ actual = 1
    /\ result = <<[body |-> response.body.children[2].body]>>

(* C5: status emission never raises: whatever the sink does, no exception
   leaves _emit_status, so none ends a handler either. *)
C5_EmitNeverRaises == err \notin EmitterErrors

(* C6: on a 2xx answer of the comment endpoint that is not valid JSON,
   get_top_comments does not raise: it returns the empty list, after exactly
   one done status, which is hidden. *)
C6_DecodeErrorGraceful ==
    (/\ op = "get_top_comments"
     /\ pc \in Terminal
     /\ Is2xx(response.status)
     /\ response.body.kind = "invalid") =>
        /\ pc = "returned"
        /\ result = <<>>
        /\ sink # "none" =>
              /\ DoneCount = 1
              /\ \A i \in 1..Len(calls) : calls[i].done => calls[i].hidden

AllowedRuns ==
    {<<"emit_start", "get", "response", "parsed", "emit_done", "return">>,
     <<"emit_start", "get", "raise">>,
     <<"emit_start", "get", "response", "raise">>,
     <<"emit_start", "get", "response", "decode_error", "emit_hidden_done",
       "return">>}

(* C8: every invocation goes start status, then the GET, then a terminal
   state; exactly one GET per invocation; on success the done status comes
   after parsing and before the return; the decode-error ending exists only in
   get_top_comments. *)
C8_Order ==
    op \in Handlers =>
        /\ \E r \in AllowedRuns : IsPrefix(hist, r)
        /\ gets <= 1
        /\ pc \in Terminal => gets = 1 /\ hist \in AllowedRuns
        /\ (\E i \in 1..Len(hist) : hist[i] = "decode_error") =>
              op = "get_top_comments"

(* C9: with a sink that returns an awaitable and a running event loop, every
   emission becomes a background task and the emitter returns without waiting:
   the start status task is still pending when the handler goes on to its
   request; without a running loop the awaitable has run to completion when
   the emitter returns. *)
C9_FireAndForget ==
    sink \in {"coro", "awaitable"} =>
        /\ loop => /\ Len(tasks) = Len(calls)
                   /\ err \notin EmitterErrors
                   /\ pc \in {"started", "resolved"} =>
                         \A i \in 1..Len(tasks) : tasks[i] = "pending"
        /\ (~loop /\ pc = "returned") =>
              /\ Len(tasks) = Len(calls)
              /\ \A i \in 1..Len(tasks) : tasks[i] = "ran"

(* C10: an invocation that ends in a transport failure, an HTTP error or, in
   search, a body that is not JSON has passed the sink the start status and no
   done status; a done status is passed only after the answer was parsed or,
   in get_top_comments, after the decode error; never more than one. *)
C10_DoneOnlyOnSuccess ==
    op \in Handlers =>
        /\ (pc = "raised"
              /\ err \in {"TransportError", "HTTPError", "JSONDecodeError"}) =>
              /\ DoneCount = 0
              /\ sink # "none" => Len(calls) = 1 /\ ~calls[1].done
        /\ err = "JSONDecodeError" => op = "search"
        /\ DoneCount <= 1
        /\ DoneCount = 1 =>
              \E i \in 1..Len(hist) :
                 \/ hist[i] = "parsed"
                 \/ hist[i] = "decode_error" /\ op = "get_top_comments"

(* search got a body that is not JSON: the sink saw the start status only *)
C10_Witness ==
    /\ op = "search"
    /\ sink = "sync"
    /\ pc = "raised"
    /\ err = "JSONDecodeError"
    /\ Len(calls) = 1

====
